---- MODULE Spec2Model ----
(***************************************************************************)
(* cve_rss_monitor.py: the CVEMonitor process as a state machine.          *)
(*                                                                         *)
(* The state is the monitor object (pull_count, email_config), the two     *)
(* scheduled jobs of run_forever, the position of the single thread of     *)
(* control, and the files the program reads and writes: data/state.json    *)
(* and the report artifacts in data/.  File texts are strings, built and   *)
(* parsed character by character, so that formatting and parsing are       *)
(* conversions that can go wrong.                                          *)
(*                                                                         *)
(* Time is the UTC instant in seconds since 2024-01-01T00:00:00Z; the host *)
(* clock is taken to be UTC, as the comment at line 178 assumes.           *)
(*                                                                         *)
(* Spec is the whole process, from its first start, with restarts.         *)
(* MailSpec is one digest cycle, for every email configuration and every   *)
(* call of send_email that can fail.                                       *)
(***************************************************************************)
EXTENDS Integers, Sequences, FiniteSets, TLC

VARIABLES
    pc,           \* position of the thread of control
    err,          \* the uncaught exception that ended the process ("" if none)
    pull_count,   \* self.pull_count, a JSON value (IntVal or StrVal)
    email_config, \* self.email_config
    state_file,   \* data/state.json: [exists, text]
    data,         \* the report artifacts: file name -> the chunks written to it
    now,          \* the UTC clock
    feed,         \* the feed of the running fetch cycle: [ok, entries]
    utc_now,      \* generate_markdown's utc_now
    filename,     \* generate_markdown's filename
    job,          \* the task being run: "first", "rss", "email" or "none"
    next_rss,     \* next_run of the 15 minutes job
    next_email,   \* next_run of the daily job
    last_mail,    \* what send_email did and returned, until the digest cycle ends
    restarts,     \* restarts of the process so far
    attached,     \* the artifacts this run attached to a digest it delivered
    undelivered,  \* a digest of this run was not delivered
    gens,         \* generate_markdown calls that got past the entries check
    pre_count,    \* pull_count when the running generate_markdown was entered
    pre_state,    \* data/state.json when the running generate_markdown was entered
    pre_data,     \* data/ when the running generate_markdown was entered
    closed,       \* the artifacts that were written to the end and closed
    run_base,     \* the counter load_state gave the last run that came to it
    run_files,    \* the file names generate_markdown returned in this run
    gap,          \* counter of the artifact written but not persisted when the
                  \* previous run ended (0: none)
    interrupted   \* a process has ended between the open of a report and the
                  \* end of its save_state

vars == <<pc, err, pull_count, email_config, state_file, data, now, feed, utc_now,
          filename, job, next_rss, next_email, last_mail, restarts, attached,
          undelivered, gens, pre_count, pre_state, pre_data, closed, run_base,
          run_files, gap, interrupted>>

(***************************************************************************)
(* Bounds of the model.                                                    *)
(***************************************************************************)
MaxRestarts == 1
MaxGen == 2

(***************************************************************************)
(* Program constants.                                                      *)
(***************************************************************************)
RssMinutes == 15
EmailHour == 2
SslPort == 465

DaySeconds == 24 * 3600

\* The instants the model's clock takes: 00:00:05, 00:00:06 and 02:00:00 of the first
\* day, and 02:00:00 of the second.
Clock == {5, 6, EmailHour * 3600, DaySeconds + EmailHour * 3600}

rss_url == "https://cvefeed.io/rssfeed/severity/high.xml"

(***************************************************************************)
(* Text.                                                                   *)
(***************************************************************************)
Digit == <<"0", "1", "2", "3", "4", "5", "6", "7", "8", "9">>
DigitChars == {Digit[i] : i \in 1..10}

Char(s, i) == SubSeq(s, i, i)

StartsWith(s, p) == Len(s) >= Len(p) /\ SubSeq(s, 1, Len(p)) = p
EndsWith(s, p) == Len(s) >= Len(p) /\ SubSeq(s, Len(s) - Len(p) + 1, Len(s)) = p

\* str(n) of a non-negative integer
RECURSIVE Dec(_)
Dec(n) == IF n < 10 THEN Digit[n + 1] ELSE Dec(n \div 10) \o Digit[(n % 10) + 1]

\* a two-digit field of strftime
Pad2(n) == Digit[(n \div 10) + 1] \o Digit[(n % 10) + 1]

IsDigits(s) == Len(s) > 0 /\ \A i \in 1..Len(s) : Char(s, i) \in DigitChars

DigitValue(c) == CHOOSE d \in 0..9 : Digit[d + 1] = c

\* int(s) of a string of digits
RECURSIVE DecParse(_)
DecParse(s) ==
    IF Len(s) = 0 THEN 0
    ELSE 10 * DecParse(SubSeq(s, 1, Len(s) - 1)) + DigitValue(Char(s, Len(s)))

\* strftime("%Y-%m-%d") and strftime("%H%M%S") of an instant of January 2024
DateStr(t) == "2024-01-" \o Pad2((t \div DaySeconds) + 1)
TimeStr(t) ==
    Pad2((t % DaySeconds) \div 3600) \o Pad2((t % 3600) \div 60) \o Pad2(t % 60)

(***************************************************************************)
(* JSON values and data/state.json.                                        *)
(***************************************************************************)
IntVal(n) == [t |-> "int", n |-> n]
StrVal == [t |-> "str", n |-> 0]
IsInt(v) == v.t = "int"

NoFile == [exists |-> FALSE, text |-> ""]
File(text) == [exists |-> TRUE, text |-> text]

JsonValue(v) == IF IsInt(v) THEN Dec(v.n) ELSE "\"x\""

\* The chunks json.dump writes for {"pull_count": v}, one f.write each.
DumpChunks(v) == <<"{", "\"pull_count\"", ": ", JsonValue(v), "}">>

RECURSIVE Concat(_)
Concat(chunks) == IF chunks = <<>> THEN "" ELSE Head(chunks) \o Concat(Tail(chunks))

KeyPrefix == "{\"pull_count\": "

DecodeError == [ok |-> FALSE, kind |-> "", has |-> FALSE, val |-> IntVal(0)]
Decoded(kind, has, val) == [ok |-> TRUE, kind |-> kind, has |-> has, val |-> val]

\* json.load on the texts this model puts in data/state.json: an object with at
\* most the key pull_count (an integer or a string), an array of one integer, a
\* bare integer; anything else is a JSONDecodeError.
JsonLoad(text) ==
    IF text = "{}" THEN Decoded("object", FALSE, IntVal(0))
    ELSE IF StartsWith(text, KeyPrefix) /\ EndsWith(text, "}")
              /\ Len(text) > Len(KeyPrefix) + 1
    THEN LET body == SubSeq(text, Len(KeyPrefix) + 1, Len(text) - 1) IN
         IF IsDigits(body) THEN Decoded("object", TRUE, IntVal(DecParse(body)))
         ELSE IF body = "\"x\"" THEN Decoded("object", TRUE, StrVal)
         ELSE DecodeError
    ELSE IF StartsWith(text, "[") /\ EndsWith(text, "]") /\ Len(text) > 2
              /\ IsDigits(SubSeq(text, 2, Len(text) - 1))
    THEN Decoded("array", FALSE, IntVal(0))
    ELSE IF IsDigits(text) THEN Decoded("number", FALSE, IntVal(0))
    ELSE DecodeError

\* The state files a first start may find.
InitialStateFiles ==
    { NoFile, File(""), File("{\"pull_count\""), File("[1]"), File("{}"),
      File("{\"pull_count\": \"x\"}"), File("{\"pull_count\": 0}"),
      File("{\"pull_count\": 5}") }

(***************************************************************************)
(* The feed and the report text.                                           *)
(***************************************************************************)
Entry1 ==
    [title |-> "CVE-2024-0001",
     link |-> "https://cvefeed.io/1",
     published |-> "Mon, 01 Jan 2024",
     description |-> "<p>RCE in <b>x</b></p>"]
Entry2 == [title |-> "CVE-2024-0002", description |-> "a<<b>c>"]

\* fetch_rss_feed's results: None, or a feed with its entries in feed order
NoFeed == [ok |-> FALSE, entries |-> <<>>]
Fetched(entries) == [ok |-> TRUE, entries |-> entries]
EmptyFeed == Fetched(<<>>)
Feeds == {Fetched(<<Entry1>>), Fetched(<<Entry1, Entry2>>)}

\* entry.get(key, default)
Get(entry, key, default) == IF key \in DOMAIN entry THEN entry[key] ELSE default

\* The lazy scan of [^<]+?> from position k on, for a '<' at position i: the
\* first '>' at i+2 or later, with no '<' before it; 0 when there is none.
RECURSIVE ScanClose(_, _, _)
ScanClose(s, i, k) ==
    IF k > Len(s) \/ Char(s, k) = "<" THEN 0
    ELSE IF k >= i + 2 /\ Char(s, k) = ">" THEN k
    ELSE ScanClose(s, i, k + 1)

\* Where the match of '<[^<]+?>' that starts at i ends; 0 when there is no
\* match at i.
MatchEnd(s, i) == IF Char(s, i) = "<" THEN ScanClose(s, i, i + 1) ELSE 0

\* re.sub('<[^<]+?>', '', s) from position i on
RECURSIVE StripFrom(_, _)
StripFrom(s, i) ==
    IF i > Len(s) THEN ""
    ELSE LET j == MatchEnd(s, i)
         IN  IF j > 0 THEN StripFrom(s, j + 1) ELSE Char(s, i) \o StripFrom(s, i + 1)

CleanDesc(description) == StripFrom(description, 1)

\* Line 82 left out: the counter is used as it was loaded.
NextCountNotIncremented(v) == IntVal(v.n)

\* The increment of line 82.
NextCount(v) == IntVal(v.n + 1)

\* Line 83 without time_str.
ReportNameWithoutTime(date_str, time_str, count) ==
    "data/" \o date_str \o "-pull" \o Dec(count.n) \o ".md"

\* The file name of line 83.
ReportName(date_str, time_str, count) ==
    "data/" \o date_str \o "-" \o time_str \o "-pull" \o Dec(count.n) \o ".md"

\* Line 87 with the counter as it was before line 82.
HeaderBlockOldCount(date_str, time_str, count) ==
    << "# CVE Vulnerability Report - " \o date_str \o " " \o time_str
           \o " UTC (Pull #" \o Dec(count.n - 1) \o ")\n\n",
       "Source: " \o rss_url \o "\n\n" >>

\* The two writes of lines 87-88.
HeaderBlock(date_str, time_str, count) ==
    << "# CVE Vulnerability Report - " \o date_str \o " " \o time_str
           \o " UTC (Pull #" \o Dec(count.n) \o ")\n\n",
       "Source: " \o rss_url \o "\n\n" >>

\* The four writes of lines 91-98 for one entry.
EntryBlock(entry) ==
    << "## " \o Get(entry, "title", "Untitled") \o "\n",
       "- **Link**: [" \o Get(entry, "link", "No link") \o "]("
           \o Get(entry, "link", "No link") \o ")\n",
       "- **Published**: " \o Get(entry, "published", "Unknown") \o "\n",
       "- **Description**: "
           \o CleanDesc(Get(entry, "description", "No description")) \o "\n\n" >>

\* What the loop of lines 90-98 writes: the entries' blocks in the order of
\* feed.entries.
RECURSIVE EntryChunks(_)
EntryChunks(entries) ==
    IF entries = <<>> THEN <<>>
    ELSE EntryBlock(Head(entries)) \o EntryChunks(Tail(entries))

\* What the with-block of lines 86-98 writes, one chunk for each f.write.
ReportChunks(date_str, time_str, count, entries) ==
    HeaderBlock(date_str, time_str, count) \o EntryChunks(entries)

\* Line 74 without the test of feed.entries.
NoEntriesFeedOnly(f) == ~f.ok

\* generate_markdown's guard of line 74
NoEntries(f) == ~f.ok \/ f.entries = <<>>

(***************************************************************************)
(* The scheduler (the schedule library as run_forever uses it).            *)
(***************************************************************************)
\* next_run of every(15).minutes, set when the job is registered or has run
NextRss(t) == t + RssMinutes * 60

\* next_run of every().day.at("02:00"): the first 02:00:00 after t
NextEmail(t) ==
    IF t % DaySeconds < EmailHour * 3600
    THEN (t \div DaySeconds) * DaySeconds + EmailHour * 3600
    ELSE ((t \div DaySeconds) + 1) * DaySeconds + EmailHour * 3600

(***************************************************************************)
(* The email configurations of the command line (lines 197-203): None, or  *)
(* the object of the JSON file, with the keys it has.                      *)
(***************************************************************************)
RequiredKeys == {"from", "to", "smtp_server", "smtp_port"}
OptionalKeys == {"use_tls", "username", "password"}

\* The dict with these keys; a key that is absent has no value to read.
Config(keys, port, tls, user, pass) ==
    [present |-> TRUE, keys |-> keys,
     smtp_port |-> IF "smtp_port" \in keys THEN port ELSE 0,
     use_tls |-> "use_tls" \in keys /\ tls,
     username |-> IF "username" \in keys THEN user ELSE "",
     password |-> IF "password" \in keys THEN pass ELSE ""]

NoConfig ==
    [present |-> FALSE, keys |-> {}, smtp_port |-> 0, use_tls |-> FALSE,
     username |-> "", password |-> ""]
SslConfig == Config(RequiredKeys \cup OptionalKeys, SslPort, FALSE, "user", "secret")
EmailConfigs == {NoConfig, SslConfig}

\* The configurations send_email is checked with: every port, use_tls and
\* credentials absent, empty or set, a required key missing, the empty object.
Ports == {SslPort, 25, 587}
KeySets ==
    {RequiredKeys \cup opt : opt \in SUBSET OptionalKeys}
        \cup {RequiredKeys \ {k} : k \in RequiredKeys} \cup {{}}
MailConfigs ==
    {NoConfig} \cup
    {Config(keys, port, tls, user, pass) :
        keys \in KeySets, port \in Ports, tls \in BOOLEAN,
        user \in {"", "user"}, pass \in {"", "secret"}}

\* self.email_config.get(key) as a condition (lines 141, 143)
Truthy(config, key) ==
    /\ key \in config.keys
    /\ IF key = "use_tls" THEN config.use_tls
       ELSE IF key = "username" THEN config.username # ""
       ELSE config.password # ""

\* "if not self.email_config" (line 106): None, and the empty object as well
Falsy(config) == ~config.present \/ config.keys = {}

\* Lines 135-141 with the use_tls test outside the else branch: starttls on
\* the implicit-encryption connection as well.
SmtpCallsTlsOnAnyPort(config) ==
    <<IF config.smtp_port = SslPort THEN "SMTP_SSL" ELSE "SMTP">>
    \o (IF Truthy(config, "use_tls") THEN <<"starttls">> ELSE <<>>)
    \o (IF Truthy(config, "username") /\ Truthy(config, "password")
        THEN <<"login">> ELSE <<>>)
    \o <<"sendmail", "quit">>

\* The calls send_email makes on smtplib when none of them fails (lines 135-146).
SmtpCalls(config) ==
    (IF config.smtp_port = SslPort
     THEN <<"SMTP_SSL">>
     ELSE <<"SMTP">> \o (IF Truthy(config, "use_tls") THEN <<"starttls">> ELSE <<>>))
    \o (IF Truthy(config, "username") /\ Truthy(config, "password")
        THEN <<"login">> ELSE <<>>)
    \o <<"sendmail", "quit">>

\* What can fail outside the program: reading an attachment, or one of the
\* calls on the server.
Faults == {"none", "open", "connect", "starttls", "login", "sendmail"}

FailsAt(call, fault) ==
    \/ call = fault
    \/ call \in {"SMTP", "SMTP_SSL"} /\ fault = "connect"

\* The calls made up to and with the one that fails.
Made(calls, fault) ==
    LET hits == {i \in 1..Len(calls) : FailsAt(calls[i], fault)}
    IN  IF hits = {} THEN calls
        ELSE SubSeq(calls, 1, CHOOSE i \in hits : \A j \in hits : i <= j)

Exceptions == {"KeyError", "OSError", "SMTPException"}

\* Line 150 as "except smtplib.SMTPException".
CaughtSmtpOnly(exception) == exception = "SMTPException"

\* "except Exception" (line 150)
Caught(exception) == exception \in Exceptions

\* send_email's try block left by an exception after these calls: False when
\* the handler of line 150 takes it (lines 151-152).
Failed(calls, exception) ==
    [returned |-> FALSE, calls |-> calls,
     caught |-> IF Caught(exception) THEN exception ELSE "",
     raised |-> IF Caught(exception) THEN "" ELSE exception]

\* send_email (lines 104-152) with these attachments, when this is what fails.
SendEmail(config, files, fault) ==
    IF Falsy(config)
    THEN [returned |-> FALSE, calls |-> <<>>, caught |-> "", raised |-> ""]
    ELSE IF ~({"from", "to"} \subseteq config.keys)
    THEN Failed(<<>>, "KeyError")
    ELSE IF files # {} /\ fault = "open"
    THEN Failed(<<>>, "OSError")
    ELSE IF ~({"smtp_port", "smtp_server"} \subseteq config.keys)
    THEN Failed(<<>>, "KeyError")
    ELSE IF \E i \in 1..Len(SmtpCalls(config)) : FailsAt(SmtpCalls(config)[i], fault)
    THEN Failed(Made(SmtpCalls(config), fault), "SMTPException")
    ELSE [returned |-> TRUE, calls |-> SmtpCalls(config), caught |-> "", raised |-> ""]

NoMail == [sent |-> FALSE, files |-> {}, calls |-> <<>>, caught |-> ""]

\* run_daily_email's report_files (line 168): today's .md files of data/
TodaysReports(files, t) ==
    {f \in DOMAIN files :
        LET base == SubSeq(f, Len("data/") + 1, Len(f))
        IN  StartsWith(base, DateStr(t)) /\ EndsWith(base, ".md")}

(***************************************************************************)
(* The process.                                                            *)
(***************************************************************************)
NoFiles == [f \in {} |-> <<>>]

\* run_base of a process that has not come to load_state yet
Unloaded == [t |-> "none", n |-> 0]

Init ==
    /\ pc = "boot"
    /\ err = ""
    /\ pull_count = IntVal(0)
    /\ email_config \in EmailConfigs
    /\ state_file \in InitialStateFiles
    /\ data = NoFiles
    /\ now = 5
    /\ feed = NoFeed
    /\ utc_now = 0
    /\ filename = ""
    /\ job = "none"
    /\ next_rss = 0
    /\ next_email = 0
    /\ last_mail = NoMail
    /\ restarts = 0
    /\ attached = {}
    /\ undelivered = FALSE
    /\ gens = 0
    /\ pre_count = IntVal(0)
    /\ pre_state = NoFile
    /\ pre_data = NoFiles
    /\ closed = {}
    /\ run_base = Unloaded
    /\ run_files = <<>>
    /\ gap = 0
    /\ interrupted = FALSE

\* The thread is between the open of a report (line 86) and the end of
\* save_state (line 55): a process that ends here leaves a report or a state
\* file that the other does not match.
MidWrite == pc \in {"open", "write", "save", "dump"}

\* The counter of an artifact that is written and closed while the counter in
\* data/state.json is still the old one: the thread is between line 100 and the
\* open of line 54.
GapNow == IF pc = "save" THEN pull_count.n ELSE 0

\* An exception nothing catches: it leaves run_rss_update, run_pending and
\* run_forever (or __init__), and the process ends.
Raise(exception) ==
    /\ pc' = "crashed"
    /\ err' = exception
    /\ gap' = GapNow
    /\ interrupted' = (interrupted \/ MidWrite)

\* The locals of generate_markdown, gone when the cycle is over.
ForgetLocals ==
    /\ utc_now' = 0
    /\ filename' = ""
    /\ pre_count' = IntVal(0)
    /\ pre_state' = NoFile
    /\ pre_data' = NoFiles

\* The task returns to the scheduler: the first fetch cycle to run_forever
\* (line 183), a job to run_pending, which sets its next_run.
EndCycle ==
    /\ pc' = "idle"
    /\ job' = "none"
    /\ next_rss' = IF job = "rss" THEN NextRss(now) ELSE next_rss
    /\ next_email' = IF job = "email" THEN NextEmail(now) ELSE next_email
    /\ ForgetLocals

\* load_state that reads another key than save_state writes: the default of
\* line 43 every time.
LoadResultDefaultOnly(file) == [raises |-> FALSE, count |-> IntVal(0)]

\* What load_state makes of data/state.json (lines 40-47): the counter, or the
\* exception it lets through.
LoadResult(file) ==
    IF ~file.exists \/ ~JsonLoad(file.text).ok
    THEN [raises |-> FALSE, count |-> IntVal(0)]
    ELSE IF JsonLoad(file.text).kind # "object"
    THEN [raises |-> TRUE, count |-> IntVal(0)]
    ELSE IF JsonLoad(file.text).has
    THEN [raises |-> FALSE, count |-> JsonLoad(file.text).val]
    ELSE [raises |-> FALSE, count |-> IntVal(0)]

\* CVEMonitor(...): __init__ and load_state (lines 31-47, 206).
LoadState ==
    /\ pc = "boot"
    /\ pull_count' = LoadResult(state_file).count
    /\ run_base' = LoadResult(state_file).count
    /\ IF LoadResult(state_file).raises
       THEN Raise("AttributeError")
       ELSE pc' = "sched" /\ UNCHANGED <<err, gap, interrupted>>
    /\ UNCHANGED <<email_config, state_file, data, now, feed, utc_now, filename,
                   job, next_rss, next_email, last_mail, restarts, attached,
                   undelivered, gens, pre_count, pre_state, pre_data, closed,
                   run_files>>

\* run_forever up to its first run_rss_update (lines 175-183).
RunForever ==
    /\ pc = "sched"
    /\ next_rss' = NextRss(now)
    /\ next_email' = NextEmail(now)
    /\ job' = "first"
    /\ pc' = "fetch"
    /\ UNCHANGED <<err, pull_count, email_config, state_file, data, now, feed,
                   utc_now, filename, last_mail, restarts, attached, undelivered,
                   gens, pre_count, pre_state, pre_data, closed, run_base,
                   run_files, gap, interrupted>>

\* run_rss_update with fetch_rss_feed (lines 156-161, 58-70): None for a feed that
\* cannot be fetched or parsed, and then the cycle is over.
RunRssUpdate ==
    /\ pc = "fetch"
    /\ \E f \in {NoFeed, EmptyFeed} \cup (IF gens < MaxGen THEN Feeds ELSE {}) :
          /\ feed' = f
          /\ IF f.ok
             THEN /\ pc' = "generate"
                  /\ UNCHANGED <<job, next_rss, next_email, utc_now, filename,
                                 pre_count, pre_state, pre_data>>
             ELSE EndCycle
    /\ UNCHANGED <<err, pull_count, email_config, state_file, data, now, last_mail,
                   restarts, attached, undelivered, gens, closed, run_base,
                   run_files, gap, interrupted>>

\* generate_markdown up to the file name (lines 74-83).
GenerateMarkdown ==
    /\ pc = "generate"
    /\ IF NoEntries(feed)
       THEN /\ EndCycle
            /\ UNCHANGED <<err, pull_count, gens, gap, interrupted>>
       ELSE IF ~IsInt(pull_count)
       THEN /\ Raise("TypeError")
            /\ UNCHANGED <<pull_count, gens, job, next_rss, next_email, utc_now,
                           filename, pre_count, pre_state, pre_data>>
       ELSE /\ utc_now' = now
            /\ pull_count' = NextCount(pull_count)
            /\ filename' = ReportName(DateStr(now), TimeStr(now), pull_count')
            /\ pre_count' = pull_count
            /\ pre_state' = state_file
            /\ pre_data' = data
            /\ gens' = gens + 1
            /\ pc' = "open"
            /\ UNCHANGED <<err, gap, interrupted, job, next_rss, next_email>>
    /\ UNCHANGED <<email_config, state_file, data, now, feed, last_mail, restarts,
                   attached, undelivered, closed, run_base, run_files>>

\* open(filename, "w") (line 86): creates the file, or empties the one there is.
OpenReport ==
    /\ pc = "open"
    /\ \/ /\ data' = [f \in DOMAIN data \cup {filename} |->
                         IF f = filename THEN <<>> ELSE data[f]]
          /\ closed' = closed \ {filename}
          /\ pc' = "write"
          /\ UNCHANGED <<err, gap, interrupted>>
       \/ /\ Raise("OSError at open")
          /\ UNCHANGED <<data, closed>>
    /\ UNCHANGED <<pull_count, email_config, state_file, now, feed, utc_now,
                   filename, job, next_rss, next_email, last_mail, restarts,
                   attached, undelivered, gens, pre_count, pre_state, pre_data,
                   run_base, run_files>>

\* save_state of line 101 moved into the with block, after the header: the
\* counter is saved while the report is open and has no entry yet.
WriteReportSaveEarly ==
    /\ pc = "write"
    /\ data' = [data EXCEPT ![filename] = HeaderBlock(DateStr(utc_now),
                                                      TimeStr(utc_now), pull_count)]
    /\ pc' = "save"
    /\ UNCHANGED <<err, pull_count, email_config, state_file, now, feed, utc_now,
                   filename, job, next_rss, next_email, last_mail, restarts,
                   attached, undelivered, gens, pre_count, pre_state, pre_data,
                   closed, run_base, run_files, gap, interrupted>>

\* The writes of lines 87-98, a block at a time: the header, then one entry of
\* the loop; after the last entry the file is closed and line 100 is reached.
\* What is written before a failure stays in the file.
WriteReport ==
    /\ pc = "write"
    /\ LET chunks == ReportChunks(DateStr(utc_now), TimeStr(utc_now), pull_count,
                                  feed.entries)
           done == Len(data[filename])
           upto == done + (IF done = 0 THEN Len(HeaderBlock("", "", pull_count))
                                       ELSE Len(EntryBlock(Entry1)))
       IN  \/ /\ data' = [data EXCEPT ![filename] = SubSeq(chunks, 1, upto)]
              /\ IF upto = Len(chunks)
                 THEN pc' = "save" /\ closed' = closed \cup {filename}
                 ELSE pc' = "write" /\ closed' = closed
              /\ UNCHANGED <<err, gap, interrupted>>
           \/ /\ Raise("OSError at write")
              /\ UNCHANGED <<data, closed>>
    /\ UNCHANGED <<pull_count, email_config, state_file, now, feed, utc_now,
                   filename, job, next_rss, next_email, last_mail, restarts,
                   attached, undelivered, gens, pre_count, pre_state, pre_data,
                   run_base, run_files>>

\* save_state's open("data/state.json", "w") (line 54): empties the file.
SaveStateOpen ==
    /\ pc = "save"
    /\ \/ /\ state_file' = File("")
          /\ pc' = "dump"
          /\ UNCHANGED <<err, gap, interrupted>>
       \/ /\ Raise("OSError at state open")
          /\ UNCHANGED state_file
    /\ UNCHANGED <<pull_count, email_config, data, now, feed, utc_now, filename,
                   job, next_rss, next_email, last_mail, restarts, attached,
                   undelivered, gens, pre_count, pre_state, pre_data, closed,
                   run_base, run_files>>

\* json.dump(state, f) and the close of the file (line 55): the chunks json.dump
\* writes stay in the file object's buffer, and reach the file when it is closed.
SaveStateDump ==
    /\ pc = "dump"
    /\ \/ /\ state_file' = File(state_file.text \o Concat(DumpChunks(pull_count)))
          /\ pc' = "return"
          /\ UNCHANGED <<err, gap, interrupted>>
       \/ /\ Raise("OSError at dump")
          /\ UNCHANGED state_file
    /\ UNCHANGED <<pull_count, email_config, data, now, feed, utc_now, filename,
                   job, next_rss, next_email, last_mail, restarts, attached,
                   undelivered, gens, pre_count, pre_state, pre_data, closed,
                   run_base, run_files>>

\* generate_markdown returns filename, run_rss_update returns [filename]
\* (lines 102, 160).
Return ==
    /\ pc = "return"
    /\ run_files' = Append(run_files, filename)
    /\ EndCycle
    /\ UNCHANGED <<err, pull_count, email_config, state_file, data, now, feed,
                   last_mail, restarts, attached, undelivered, gens, closed,
                   run_base, gap, interrupted>>

\* run_pending on a thread of its own: the digest job starts when it is due,
\* whether or not the fetch cycle has come to its end.
RunPendingWhileWriting ==
    /\ pc \in {"idle", "write"}
    /\ next_email <= now
    /\ job' = "email"
    /\ pc' = "email"
    /\ UNCHANGED <<err, pull_count, email_config, state_file, data, now, feed,
                   utc_now, filename, next_rss, next_email, last_mail, restarts,
                   attached, undelivered, gens, pre_count, pre_state, pre_data,
                   closed, run_base, run_files, gap, interrupted>>

\* schedule.run_pending() (line 186): the jobs that are due, by next_run, the
\* fetch job first when both are due at the same instant.
RunPending ==
    /\ pc = "idle"
    /\ \/ /\ next_rss <= now
          /\ next_email <= now => next_rss <= next_email
          /\ job' = "rss"
          /\ pc' = "fetch"
       \/ /\ next_email <= now
          /\ next_rss <= now => next_email < next_rss
          /\ job' = "email"
          /\ pc' = "email"
    /\ UNCHANGED <<err, pull_count, email_config, state_file, data, now, feed,
                   utc_now, filename, next_rss, next_email, last_mail, restarts,
                   attached, undelivered, gens, pre_count, pre_state, pre_data,
                   closed, run_base, run_files, gap, interrupted>>

\* run_daily_email up to the return of send_email (lines 165-170): today's
\* reports, and send_email with them. An exception send_email lets through
\* leaves run_daily_email, run_pending and run_forever.
RunDailyEmail ==
    /\ pc = "email"
    /\ \E fault \in Faults :
          LET files == TodaysReports(data, now)
              mail == SendEmail(email_config, files, fault)
          IN  /\ last_mail' = [sent |-> mail.returned, files |-> files,
                               calls |-> mail.calls, caught |-> mail.caught]
              /\ attached' = IF mail.returned THEN attached \cup files ELSE attached
              /\ undelivered' = (undelivered \/ ~mail.returned)
              /\ IF mail.raised = ""
                 THEN pc' = "mailed" /\ UNCHANGED <<err, gap, interrupted>>
                 ELSE Raise(mail.raised)
    /\ UNCHANGED <<pull_count, email_config, state_file, data, now, feed, utc_now,
                   filename, job, next_rss, next_email, restarts, gens, pre_count,
                   pre_state, pre_data, closed, run_base, run_files>>

\* run_daily_email returns to run_pending (line 170); what send_email returned
\* is dropped.
ReturnEmail ==
    /\ pc = "mailed"
    /\ last_mail' = NoMail
    /\ EndCycle
    /\ UNCHANGED <<err, pull_count, email_config, state_file, data, now, feed,
                   restarts, attached, undelivered, gens, closed, run_base,
                   run_files, gap, interrupted>>

\* time.sleep(1) and every other passing of time
Tick ==
    /\ \E t \in Clock : t > now /\ now' = t
    /\ UNCHANGED <<pc, err, pull_count, email_config, state_file, data, feed,
                   utc_now, filename, job, next_rss, next_email, last_mail,
                   restarts, attached, undelivered, gens, pre_count, pre_state,
                   pre_data, closed, run_base, run_files, gap, interrupted>>

Running == pc \notin {"crashed", "killed"}

\* What a process that is gone leaves of its memory: nothing.
ForgetMemory ==
    /\ pull_count' = IntVal(0)
    /\ feed' = NoFeed
    /\ job' = "none"
    /\ next_rss' = 0
    /\ next_email' = 0
    /\ last_mail' = NoMail
    /\ run_files' = <<>>
    /\ attached' = {}
    /\ undelivered' = FALSE
    /\ ForgetLocals

\* The process is ended from outside (a signal, a power cut) wherever it is.
Kill ==
    /\ Running
    /\ pc' = "killed"
    /\ gap' = GapNow
    /\ interrupted' = (interrupted \/ MidWrite)
    /\ ForgetMemory
    /\ UNCHANGED <<err, email_config, state_file, data, now, restarts, gens, closed,
                   run_base>>

\* The process is started again: a new monitor object (line 206), the files as
\* they were left.
Restart ==
    /\ ~Running
    /\ restarts < MaxRestarts
    /\ restarts' = restarts + 1
    /\ pc' = "boot"
    /\ err' = ""
    /\ run_base' = Unloaded
    /\ ForgetMemory
    /\ UNCHANGED <<email_config, state_file, data, now, gens, closed, gap,
                   interrupted>>

Next ==
    \/ LoadState
    \/ RunForever
    \/ RunRssUpdate
    \/ GenerateMarkdown
    \/ OpenReport
    \/ WriteReport
    \/ SaveStateOpen
    \/ SaveStateDump
    \/ Return
    \/ RunPending
    \/ RunDailyEmail
    \/ ReturnEmail
    \/ Tick
    \/ Kill
    \/ Restart

Spec == Init /\ [][Next]_vars

(***************************************************************************)
(* The digest cycle alone, for every email configuration: run_pending has  *)
(* just called run_daily_email at 02:00, after a first fetch cycle that    *)
(* wrote a report or found nothing to report.                              *)
(***************************************************************************)
MailInit ==
    /\ pc = "email"
    /\ err = ""
    /\ email_config \in MailConfigs
    /\ now = EmailHour * 3600
    /\ \E n \in {0, 1} :
          LET name == ReportName(DateStr(5), TimeStr(5), IntVal(1))
          IN  /\ pull_count = IntVal(n)
              /\ gens = n
              /\ state_file = IF n = 0 THEN NoFile
                              ELSE File(Concat(DumpChunks(IntVal(1))))
              /\ data = IF n = 0 THEN NoFiles
                        ELSE [f \in {name} |->
                                ReportChunks(DateStr(5), TimeStr(5), IntVal(1),
                                             <<Entry1>>)]
              /\ closed = IF n = 0 THEN {} ELSE {name}
              /\ run_files = IF n = 0 THEN <<>> ELSE <<name>>
    /\ feed = NoFeed
    /\ utc_now = 0
    /\ filename = ""
    /\ job = "email"
    /\ next_rss = NextRss(now)
    /\ next_email = now
    /\ last_mail = NoMail
    /\ restarts = 0
    /\ attached = {}
    /\ undelivered = FALSE
    /\ pre_count = IntVal(0)
    /\ pre_state = NoFile
    /\ pre_data = NoFiles
    /\ run_base = IntVal(0)
    /\ gap = 0
    /\ interrupted = FALSE

MailNext == RunDailyEmail \/ ReturnEmail

MailSpec == MailInit /\ [][MailNext]_vars

(***************************************************************************)
(* What the claims read off the state.                                     *)
(***************************************************************************)
\* The counter a load_state of data/state.json as it is now would give.
PersistedCount == LoadResult(state_file).count

\* The text of a complete record with counter n.
StateText(n) == "{\"pull_count\": " \o Dec(n) \o "}"

\* The counter in a report's file name, data/YYYY-MM-DD-HHMMSS-pull<N>.md.
PullOfName(f) ==
    DecParse(SubSeq(f, Len("data/2024-01-01-000005-pull") + 1, Len(f) - Len(".md")))

\* The counter in a report's header line.
PullOfHeader(h) ==
    DecParse(SubSeq(h, Len("# CVE Vulnerability Report - 2024-01-01 000005 UTC (Pull #") + 1,
                    Len(h) - Len(")\n\n")))

\* The '##' lines of a report, in the order they stand in the file.
Sections(chunks) == SelectSeq(chunks, LAMBDA c : StartsWith(c, "## "))

\* The thread is between two cycles or at the start of one: no
\* generate_markdown is under way.
BetweenWrites == pc \in {"idle", "fetch", "generate", "email", "mailed"}

(***************************************************************************)
(* C1.  After the N >= 1 successful report writes of one run, the          *)
(* persisted pull_count is the value the run started from plus N, and the  *)
(* N artifacts have N different file names.                                *)
(***************************************************************************)
C1_CountAfterWrites ==
    (BetweenWrites /\ run_files # <<>>) =>
        /\ state_file = File(StateText(run_base.n + Len(run_files)))
        /\ Cardinality({run_files[i] : i \in DOMAIN run_files}) = Len(run_files)

C1_Witness == pc = "idle" /\ Len(run_files) = 2 /\ run_base = IntVal(5)

(***************************************************************************)
(* C2.  When opening or writing the report file fails in generate_markdown,*)
(* the monitor's pull_count and data/state.json are what they were before  *)
(* the call.                                                               *)
(***************************************************************************)
C2_FailedWriteLeavesState ==
    (pc = "crashed" /\ err \in {"OSError at open", "OSError at write"}) =>
        (pull_count = pre_count /\ state_file = pre_state)

(***************************************************************************)
(* C3.  No failure of a fetch cycle, at the artifact write or at the state *)
(* save, leaves the cycle as an exception that ends the scheduler loop.    *)
(***************************************************************************)
C3_CycleNeverRaises ==
    ~(pc = "crashed" /\ err \in {"OSError at open", "OSError at write",
                                 "OSError at state open", "OSError at dump"})

(***************************************************************************)
(* C4.  load_state never raises, and for a state file that is missing or   *)
(* not a JSON object with an integer pull_count it returns with            *)
(* pull_count = 0.                                                         *)
(***************************************************************************)
WellFormed(file) ==
    /\ file.exists
    /\ JsonLoad(file.text).ok
    /\ JsonLoad(file.text).kind = "object"
    /\ JsonLoad(file.text).has
    /\ IsInt(JsonLoad(file.text).val)

C4_LoadNeverRaises ==
    /\ ~(pc = "crashed" /\ err = "AttributeError")
    /\ (pc = "sched" /\ ~WellFormed(state_file)) => pull_count = IntVal(0)

(***************************************************************************)
(* C5.  As claimed: the number in an artifact's file name and header is    *)
(* the persisted counter at the moment the artifact has been created.      *)
(***************************************************************************)
C5_NumberIsPersistedAtCreation ==
    pc = "save" =>
        /\ PullOfName(filename) = PersistedCount.n
        /\ PullOfHeader(data[filename][1]) = PersistedCount.n

(***************************************************************************)
(* C5, amended.  A generate_markdown call that writes an artifact raises   *)
(* pull_count by exactly 1; the number in the artifact's file name and     *)
(* header is the in-memory counter, one more than the persisted counter at *)
(* the moment the artifact has been created, and equal to the persisted    *)
(* counter once save_state has written it.                                 *)
(***************************************************************************)
C5_NumberIsCounter ==
    /\ pc \in {"save", "dump", "return"} =>
          /\ pull_count.n = pre_count.n + 1
          /\ PullOfName(filename) = pull_count.n
          /\ PullOfHeader(data[filename][1]) = pull_count.n
    /\ pc = "save" => PersistedCount.n + 1 = pull_count.n
    /\ pc = "return" => state_file = File(StateText(pull_count.n))

C5_Witness == pc = "return" /\ pull_count = IntVal(2) /\ Len(run_files) = 1

(***************************************************************************)
(* C6.  At every point of save_state, a load_state of data/state.json      *)
(* gives the old counter or the new one.                                   *)
(***************************************************************************)
C6_SaveIsAtomic == pc = "dump" => PersistedCount \in {pre_count, pull_count}

(***************************************************************************)
(* C7.  When the previous run ended after an artifact was written and      *)
(* before save_state, the first artifact of this run carries a counter     *)
(* that an existing artifact's file name carries, and creating it changes  *)
(* no artifact written before.                                             *)
(***************************************************************************)
C7_CollisionLosesNothing ==
    [][(gap > 0 /\ run_files = <<>> /\ pc = "open" /\ pc' = "write") =>
          /\ \E f \in closed : PullOfName(f) = pull_count.n
          /\ \A f \in closed : f \in DOMAIN data' /\ data'[f] = data[f]]_vars

(***************************************************************************)
(* C8.  A fetch cycle with nothing to report (no feed, or a feed without   *)
(* entries) ends at the scheduler with pull_count, data/state.json and the *)
(* artifacts as they were.                                                 *)
(***************************************************************************)
C8_NothingToReport ==
    [][((pc = "fetch" \/ pc = "generate") /\ pc' \notin {pc, "killed"}
            /\ (~feed'.ok \/ feed'.entries = <<>>)) =>
          /\ pc' = IF pc = "fetch" /\ feed'.ok THEN "generate" ELSE "idle"
          /\ pull_count' = pull_count
          /\ state_file' = state_file
          /\ data' = data
          /\ run_files' = run_files]_vars

C8_Witness ==
    /\ pc = "idle"
    /\ feed = EmptyFeed
    /\ Len(run_files) = 1
    /\ state_file = File(StateText(1))
    /\ Cardinality(DOMAIN data) = 1

(***************************************************************************)
(* C9.  A successful write with starting counter c, k >= 1 entries and UTC *)
(* instant t produces exactly one artifact, named                          *)
(* <date of t>-<time of t>-pull<c+1>.md, with exactly k '##' sections in   *)
(* feed order, and leaves the persisted state {"pull_count": c+1}; c = 5,  *)
(* k = 2, t = 2024-01-01T00:00:05Z give 2024-01-01-000005-pull6.md and 6.  *)
(***************************************************************************)
TitleOf(entry) == IF "title" \in DOMAIN entry THEN entry.title ELSE "Untitled"

C9_SuccessfulWrite ==
    pc = "return" =>
        /\ filename = "data/" \o DateStr(utc_now) \o "-" \o TimeStr(utc_now)
                          \o "-pull" \o Dec(pre_count.n + 1) \o ".md"
        /\ DOMAIN data = DOMAIN pre_data \cup {filename}
        /\ \A f \in DOMAIN pre_data \ {filename} : data[f] = pre_data[f]
        /\ Len(feed.entries) >= 1
        /\ Sections(data[filename]) =
              [i \in 1..Len(feed.entries) |-> "## " \o TitleOf(feed.entries[i]) \o "\n"]
        /\ state_file = File(StateText(pre_count.n + 1))
        /\ (pre_count = IntVal(5) /\ utc_now = 5 /\ Len(feed.entries) = 2) =>
              /\ filename = "data/2024-01-01-000005-pull6.md"
              /\ state_file.text = "{\"pull_count\": 6}"
              /\ Sections(data[filename]) = <<"## CVE-2024-0001\n", "## CVE-2024-0002\n">>

C9_Witness ==
    pc = "return" /\ pre_count = IntVal(5) /\ utc_now = 5 /\ Len(feed.entries) = 2

(***************************************************************************)
(* C10.  No step of the program changes or removes an artifact that was    *)
(* written to the end.                                                     *)
(***************************************************************************)
C10_ArtifactsImmutable ==
    [][\A f \in closed : f \in DOMAIN data' /\ data'[f] = data[f]]_vars

C12_TransportSelection ==
    pc = "mailed" =>
        LET calls == last_mail.calls
            Has(call) == \E i \in 1..Len(calls) : calls[i] = call
            tls == "use_tls" \in email_config.keys /\ email_config.use_tls
            credentials ==
                /\ {"username", "password"} \subseteq email_config.keys
                /\ email_config.username # ""
                /\ email_config.password # ""
        IN  /\ email_config.smtp_port = SslPort =>
                /\ ~Has("SMTP") /\ ~Has("starttls")
                /\ last_mail.sent => calls[1] = "SMTP_SSL"
            /\ email_config.smtp_port # SslPort =>
                /\ ~Has("SMTP_SSL")
                /\ Has("starttls") => tls
                /\ last_mail.sent => calls[1] = "SMTP" /\ (Has("starttls") <=> tls)
            /\ Has("login") => credentials
            /\ last_mail.sent => Has("sendmail") /\ (Has("login") <=> credentials)
            /\ \A i, j \in 1..Len(calls) :
                  calls[i] = "login" /\ calls[j] = "sendmail" => i < j

\* A plain connection, upgraded, with login, and the message sent.
C12_Witness ==
    /\ pc = "mailed"
    /\ last_mail.sent
    /\ last_mail.calls = <<"SMTP", "starttls", "login", "sendmail", "quit">>

(***************************************************************************)
(* C13.  Markup stripping is idempotent: for the description of every      *)
(* entry of a feed whose report has been written, stripping what the       *)
(* stripping of line 97 gave gives the same text again.                    *)
(***************************************************************************)
C13_StripIdempotent ==
    pc = "save" =>
        \A i \in 1..Len(feed.entries) :
            LET description == Get(feed.entries[i], "description", "No description")
            IN  CleanDesc(CleanDesc(description)) = CleanDesc(description)

(***************************************************************************)
(* C14.  Every artifact is attached to a digest.  When a run has just      *)
(* delivered a digest, at the second it was scheduled for, and has         *)
(* delivered every digest before it, every artifact the run has written so *)
(* far has been attached to one of them: to this one if it is of today, to *)
(* an earlier one if it is older.  (A later digest lists a later date      *)
(* only, so an artifact that is missing here is attached to no digest.)    *)
(***************************************************************************)
C14_EveryArtifactAttached ==
    pc = "mailed" /\ last_mail.sent /\ ~undelivered /\ next_email = now =>
        \A i \in 1..Len(run_files) : run_files[i] \in attached

(***************************************************************************)
(* C15.  After run_forever has registered its two jobs and started the     *)
(* immediate fetch cycle, the tasks keep being executed: as long as nobody *)
(* ends the process from outside, it is in the immediate cycle, in a       *)
(* scheduled cycle or in the scheduler loop, and in the loop a job whose   *)
(* time has arrived is the next thing to run.                              *)
(***************************************************************************)
C15_TasksKeepRunning ==
    next_rss # 0 /\ pc # "killed" =>
        /\ pc \in {"fetch", "generate", "open", "write", "save", "dump", "return",
                   "email", "mailed", "idle"}
        /\ pc = "idle" /\ (next_rss <= now \/ next_email <= now) => ENABLED RunPending

(***************************************************************************)
(* C16.  Fetch cycles and digest cycles never overlap.  At most one task   *)
(* is executing: the steps of a fetch cycle belong to the immediate cycle  *)
(* or to the fetch job, the steps of a digest cycle to the digest job, and *)
(* in the scheduler loop no task is under way.  While a digest cycle runs, *)
(* no fetch cycle has a report open or half written, and the counter in    *)
(* data/state.json is not being saved.                                     *)
(***************************************************************************)
C16_CyclesNeverOverlap ==
    /\ pc \in {"fetch", "generate", "open", "write", "save", "dump", "return"} =>
          job \in {"first", "rss"}
    /\ pc = "idle" => job = "none" /\ filename = ""
    /\ pc \in {"email", "mailed"} =>
          /\ job = "email"
          /\ filename = ""
          /\ \A i \in 1..Len(run_files) : run_files[i] \in closed
          /\ LoadResult(state_file).count = pull_count \/ run_files = <<>>

\* A digest cycle that lists the report of an earlier fetch cycle of the run.
C16_Witness ==
    /\ pc = "mailed"
    /\ run_files # <<>>
    /\ \E i \in 1..Len(run_files) : run_files[i] \in last_mail.files

(***************************************************************************)
(* C17.  Write before save.  Whenever data/state.json holds a counter N    *)
(* that the run has saved (a whole record with a value other than the one  *)
(* load_state gave the run), in the run, after an exception has ended it   *)
(* or after it has been ended from outside at whatever step, there is a    *)
(* report numbered N that is completely written and closed.                *)
(***************************************************************************)
C17_WriteBeforeSave ==
    IsInt(run_base) /\ state_file # File(StateText(run_base.n)) =>
        LET saved == JsonLoad(state_file.text)
        IN  (/\ state_file.exists
             /\ saved.ok /\ saved.kind = "object" /\ saved.has /\ IsInt(saved.val)
             /\ saved.val # run_base)
            => \E f \in closed :
                  /\ EndsWith(f, "-pull" \o Dec(saved.val.n) \o ".md")
                  /\ f \in DOMAIN data
                  /\ Len(data[f]) > Len(HeaderBlock("", "", saved.val))

\* The second cycle of a run fails at the open of its report: the counter of
\* the first cycle is the one saved.
C17_Witness ==
    /\ pc = "crashed"
    /\ err = "OSError at open"
    /\ restarts = 0
    /\ WellFormed(state_file)
    /\ PersistedCount # run_base

(***************************************************************************)
(* C18.  Numbering continues across a clean restart.  A process that finds *)
(* a valid state file with counter c has loaded c when __init__ is over,   *)
(* and the first report of a run is numbered one more than what the run    *)
(* loaded.  As long as no process has ended between the open of a report   *)
(* and the end of its save_state (every stop was between cycles, or at     *)
(* least outside the writes of a cycle), every new report has a number     *)
(* greater than that of every report there is: the numbers increase and    *)
(* none is repeated.                                                       *)
(***************************************************************************)
C18_NumberingContinues ==
    /\ pc = "sched" /\ WellFormed(state_file) =>
          pull_count = JsonLoad(state_file.text).val
    /\ pc = "return" /\ run_files = <<>> /\ IsInt(run_base) =>
          PullOfName(filename) = run_base.n + 1
    /\ pc = "return" /\ ~interrupted =>
          \A f \in DOMAIN data \ {filename} : PullOfName(f) < PullOfName(filename)

\* The first report of a process restarted after a clean stop: the first run
\* found counter 5 and wrote report 6, this one loaded 6 and has written 7.
C18_Witness ==
    /\ pc = "return"
    /\ restarts = 1
    /\ ~interrupted
    /\ run_files = <<>>
    /\ run_base = IntVal(6)
    /\ PullOfName(filename) = 7
    /\ Cardinality(DOMAIN data) = 2

====
